---------------------------- MODULE Spec2Model ----------------------------
(***************************************************************************)
(* Model of the mcp_demo scripts: the tool functions of 1_basic_agent.py,  *)
(* math_server.py and weather_server.py, and the interactive loops of      *)
(* 1_basic_agent.py and 2_agent_with_mcp.py and the report run of          *)
(* 3_weather_agent_mcp.py.                                                 *)
(*                                                                         *)
(* Strings that the code inspects character by character (lower, strip,    *)
(* title, membership in a table) are sequences of one-character strings.   *)
(* Python floats are exact rationals [n, d] in lowest terms; IEEE rounding *)
(* is not modelled.  A returned f-string is its template plus the tuple of *)
(* interpolated values.                                                    *)
(***************************************************************************)
EXTENDS Integers, Sequences, FiniteSets, TLC

VARIABLES
    tool,       \* name of the tool function last called ("none" before any)
    args,       \* its arguments
    result,     \* its outcome: a returned value or a raised exception
    fetched,    \* the HTTP GETs it made, in order
    script,     \* which script runs: "basic", "mcp" or "report"
    pc,         \* position of the script
    line,       \* the raw line last read by input()
    messages,   \* the message sequence handed to agent.ainvoke, then the agent's
                \* message state of that invocation
    steps,      \* tool-calling steps of the current turn (saturating)
    conns,      \* the MCP server connections currently open
    tools,      \* the tool list the agent was created with
    agent,      \* whether create_react_agent has run
    printed,    \* the last thing the script printed to the user
    event,      \* what the last step of the script was
    eof,        \* whether standard input has reached end-of-file
    errors      \* "Error: ..." reports printed by the loop so far (saturating)

toolVars == <<tool, args, result, fetched>>
loopVars == <<script, pc, line, messages, steps, conns, tools, agent, printed, event, eof, errors>>
vars == <<tool, args, result, fetched,
          script, pc, line, messages, steps, conns, tools, agent, printed, event, eof, errors>>

---------------------------------------------------------------------------
(* Bounds of the model *)

\* numerators of the float inputs range over -MaxNum..MaxNum
MaxNum == 2
\* denominators of the float inputs range over 1..MaxDen
MaxDen == 2
\* the count of tool-calling steps of a turn stops growing at MaxSteps
MaxSteps == 3
\* the count of error reports stops growing at MaxErrors
MaxErrors == 2

---------------------------------------------------------------------------
(* Characters and strings *)

UpperAlpha == <<"A","B","C","D","E","F","G","H","I","J","K","L","M",
                "N","O","P","Q","R","S","T","U","V","W","X","Y","Z">>
LowerAlpha == <<"a","b","c","d","e","f","g","h","i","j","k","l","m",
                "n","o","p","q","r","s","t","u","v","w","x","y","z">>
Whitespace == {" ", "\t", "\n"}

IsUpper(c) == \E i \in 1..26 : UpperAlpha[i] = c
IsLower(c) == \E i \in 1..26 : LowerAlpha[i] = c
IsAlpha(c) == IsUpper(c) \/ IsLower(c)

LowerChar(c) == IF IsUpper(c) THEN LowerAlpha[CHOOSE i \in 1..26 : UpperAlpha[i] = c] ELSE c
UpperChar(c) == IF IsLower(c) THEN UpperAlpha[CHOOSE i \in 1..26 : LowerAlpha[i] = c] ELSE c

Digits == <<"0","1","2","3","4","5","6","7","8","9">>
IsDigit(c) == \E i \in 1..10 : Digits[i] = c
DigitVal(c) == (CHOOSE i \in 1..10 : Digits[i] = c) - 1

\* str.lower()
lower(s) == [i \in 1..Len(s) |-> LowerChar(s[i])]
\* str.upper()
upper(s) == [i \in 1..Len(s) |-> UpperChar(s[i])]
\* str.title(): a letter that follows a non-letter is upper-cased, any other lower-cased
title(s) == [i \in 1..Len(s) |->
               IF i = 1 \/ ~IsAlpha(s[IF i = 1 THEN 1 ELSE i - 1])
               THEN UpperChar(s[i]) ELSE LowerChar(s[i])]

RECURSIVE lstrip(_)
lstrip(s) == IF s # <<>> /\ Head(s) \in Whitespace THEN lstrip(Tail(s)) ELSE s
RECURSIVE rstrip(_)
rstrip(s) == IF s # <<>> /\ s[Len(s)] \in Whitespace
             THEN rstrip(SubSeq(s, 1, Len(s) - 1)) ELSE s
\* str.strip()
strip(s) == rstrip(lstrip(s))

\* sep.join(names)
RECURSIVE join(_, _)
join(sep, names) ==
    IF names = <<>> THEN <<>>
    ELSE IF Len(names) = 1 THEN names[1]
    ELSE names[1] \o sep \o join(sep, Tail(names))

\* the separator of every ", ".join(...)
CommaSpace == <<",", " ">>

\* s.split(sep) for a one-character sep: the pieces between the separators,
\* one more than there are separators
split(s, sep) ==
    LET at == {i \in 1..Len(s) : s[i] = sep}
        cut(k) == IF k = 0 THEN 0
                  ELSE IF k = Cardinality(at) + 1 THEN Len(s) + 1
                  ELSE CHOOSE i \in at : Cardinality({j \in at : j < i}) = k - 1
    IN  [k \in 1..(Cardinality(at) + 1) |-> SubSeq(s, cut(k - 1) + 1, cut(k) - 1)]

---------------------------------------------------------------------------
(* Floats as exact rationals *)

Abs(x) == IF x < 0 THEN -x ELSE x

RECURSIVE GCD(_, _)
GCD(a, b) == IF b = 0 THEN a ELSE GCD(b, a % b)

\* the rational n/d (d # 0) in lowest terms with a positive denominator
Norm(n, d) ==
    LET g == GCD(Abs(n), Abs(d))
        sgn == IF d < 0 THEN -1 ELSE 1
    IN  [n |-> (sgn * n) \div g, d |-> Abs(d) \div g]

Float(k) == [n |-> k, d |-> 1]

\* the float arguments a tool is called with
Numbers == {Norm(n, d) : n \in -MaxNum..MaxNum, d \in 1..MaxDen}

\* outcomes of an expression or a call
Returned(kind, text, vals) == [status |-> "returned", kind |-> kind, text |-> text, vals |-> vals]
Raised(exc) == [status |-> "raised", kind |-> exc, text |-> "", vals |-> <<>>]
\* a float result
Value(x) == Returned("float", "{}", <<x>>)
\* a str result: an f-string template and its interpolated values
Str(text, vals) == Returned("str", text, vals)

\* a + b, a - b, a * b on floats
float_add(a, b) == Norm(a.n * b.d + b.n * a.d, a.d * b.d)
float_sub(a, b) == Norm(a.n * b.d - b.n * a.d, a.d * b.d)
float_mul(a, b) == Norm(a.n * b.n, a.d * b.d)
\* a / b on floats: ZeroDivisionError when b is zero
float_truediv(a, b) ==
    IF b.n = 0 THEN Raised("ZeroDivisionError")
    ELSE Value(Norm(a.n * b.d, a.d * b.n))

RECURSIVE int_pow(_, _)
int_pow(x, k) == IF k = 0 THEN Float(1) ELSE float_mul(x, int_pow(x, k - 1))
\* base ** exponent on floats, for an exponent of integral value:
\* ZeroDivisionError for a zero base and a negative exponent
float_pow(base, exponent) ==
    IF exponent.n >= 0 THEN Value(int_pow(base, exponent.n))
    ELSE IF base.n = 0 THEN Raised("ZeroDivisionError")
    ELSE float_truediv(Float(1), int_pow(base, -exponent.n))

---------------------------------------------------------------------------
(* math_server.py *)

add(a, b) == Value(float_add(a, b))

multiply(a, b) == Value(float_mul(a, b))

subtract(a, b) == Value(float_sub(a, b))

divide_unguarded(a, b) == float_truediv(a, b)

divide(a, b) ==
    IF b.n = 0 THEN Str("Error: Cannot divide by zero", <<>>)
    ELSE float_truediv(a, b)

power(base, exponent) == float_pow(base, exponent)

\* int(ds) for a str of decimal digits
RECURSIVE int_of(_)
int_of(ds) ==
    IF ds = <<>> THEN 0
    ELSE 10 * int_of(SubSeq(ds, 1, Len(ds) - 1)) + DigitVal(ds[Len(ds)])

RECURSIVE Pow10(_)
Pow10(k) == IF k = 0 THEN 1 ELSE 10 * Pow10(k - 1)

\* float(s) for a str s over digits, sign, point, blanks and letters other
\* than those of an exponent, "inf" or "nan": surrounding whitespace is
\* dropped, then an optional sign and digits with at most one point and at
\* least one digit make a float; anything else is a ValueError
py_float(s) ==
    LET t == strip(s)
        signed == t # <<>> /\ t[1] \in {"+", "-"}
        body == IF signed THEN Tail(t) ELSE t
        points == {i \in 1..Len(body) : body[i] = "."}
        p == IF points = {} THEN Len(body) + 1 ELSE CHOOSE i \in points : \A j \in points : i <= j
        whole == SubSeq(body, 1, p - 1)
        frac == SubSeq(body, p + 1, Len(body))
        ok == /\ \A i \in 1..Len(whole) : IsDigit(whole[i])
              /\ \A i \in 1..Len(frac) : IsDigit(frac[i])
              /\ Len(whole) + Len(frac) > 0
        mag == int_of(whole \o frac)
    IN  IF ok THEN Value(Norm(IF signed /\ t[1] = "-" THEN -mag ELSE mag, Pow10(Len(frac))))
        ELSE Raised("ValueError")

\* sum(num_list) over floats
RECURSIVE sum(_)
sum(l) == IF l = <<>> THEN Float(0) ELSE float_add(l[1], sum(Tail(l)))

\* except ValueError of calculate_average; any other exception leaves the function
average_except(r) ==
    IF r.status = "raised" /\ r.kind = "ValueError"
    THEN Str("Error: Invalid number format. Use comma-separated numbers like '1,2,3,4'", <<>>)
    ELSE r

Comma == ","

calculate_average_uncaught(numbers) ==
    LET parsed == [i \in 1..Len(split(numbers, Comma)) |-> py_float(strip(split(numbers, Comma)[i]))]
        num_list == [i \in 1..Len(parsed) |-> parsed[i].vals[1]]
    IN  IF \E i \in 1..Len(parsed) : parsed[i].status = "raised" THEN Raised("ValueError")
        ELSE IF num_list = <<>> THEN Str("Error: No numbers provided", <<>>)
        ELSE float_truediv(sum(num_list), Float(Len(num_list)))

calculate_average(numbers) ==
    LET parsed == [i \in 1..Len(split(numbers, Comma)) |-> py_float(strip(split(numbers, Comma)[i]))]
        num_list == [i \in 1..Len(parsed) |-> parsed[i].vals[1]]
    IN  average_except(
            IF \E i \in 1..Len(parsed) : parsed[i].status = "raised" THEN Raised("ValueError")
            ELSE IF num_list = <<>> THEN Str("Error: No numbers provided", <<>>)
            ELSE float_truediv(sum(num_list), Float(Len(num_list))))

---------------------------------------------------------------------------
(* 1_basic_agent.py: calculate *)

op_add == <<"a","d","d">>
op_subtract == <<"s","u","b","t","r","a","c","t">>
op_multiply == <<"m","u","l","t","i","p","l","y">>
op_divide == <<"d","i","v","i","d","e">>
op_power == <<"p","o","w","e","r">>

\* str(k) for an int k >= 0
RECURSIVE int_str(_)
int_str(k) == IF k < 10 THEN <<Digits[k + 1]>> ELSE int_str(k \div 10) \o <<Digits[(k % 10) + 1]>>
\* the decimal digits of r/d after the point, 0 <= r < d, at most k of them
RECURSIVE frac_digits(_, _, _)
frac_digits(r, d, k) ==
    IF r = 0 \/ k = 0 THEN <<>>
    ELSE <<Digits[((10 * r) \div d) + 1]>> \o frac_digits((10 * r) % d, d, k - 1)
\* repr(x) of a float, the text an f-string puts for {x}: always with a
\* point, "25.0" for an integral value.  Exact for values with a terminating
\* expansion; for the others the expansion is cut at 16 digits (the last
\* digit of Python's repr follows the rounding of the double).
float_repr(x) ==
    LET f == frac_digits(Abs(x.n) % x.d, x.d, 16)
    IN  (IF x.n < 0 THEN <<"-">> ELSE <<>>) \o int_str(Abs(x.n) \div x.d) \o <<".">>
          \o (IF f = <<>> THEN <<"0">> ELSE f)

\* the operator sign of each result template of calculate
OpSign(text) ==
    CASE text = "{a} + {b} = {result}" -> "+"
      [] text = "{a} - {b} = {result}" -> "-"
      [] text = "{a} × {b} = {result}" -> "×"
      [] text = "{a} ÷ {b} = {result}" -> "÷"
\* the characters of f"{a} <sign> {b} = {result}" for float a, b, result
fstring(r) ==
    float_repr(r.vals[1]) \o <<" ", OpSign(r.text), " ">> \o float_repr(r.vals[2])
        \o <<" ", "=", " ">> \o float_repr(r.vals[3])

\* try: ... except Exception as e: return f"Error calculating: {e}"
calculate_except(r) ==
    IF r.status = "raised" THEN Str("Error calculating: {e}", <<r.kind>>) ELSE r

\* the value of a float expression inside an f-string, or the exception it raised
Fmt(text, a, b, r) == IF r.status = "raised" THEN r ELSE Str(text, <<a, b, r.vals[1]>>)

calculate_swapped(a, b, operation) ==
    calculate_except(
        IF lower(operation) = op_add THEN Fmt("{a} + {b} = {result}", a, b, Value(float_sub(a, b)))
        ELSE IF lower(operation) = op_subtract THEN Fmt("{a} - {b} = {result}", a, b, Value(float_add(a, b)))
        ELSE IF lower(operation) = op_multiply THEN Fmt("{a} × {b} = {result}", a, b, Value(float_mul(a, b)))
        ELSE IF lower(operation) = op_divide THEN
            IF b.n = 0 THEN Str("Error: Cannot divide by zero", <<>>)
            ELSE Fmt("{a} ÷ {b} = {result}", a, b, float_truediv(b, a))
        ELSE Str("Unknown operation: {operation}. Use: add, subtract, multiply, divide", <<operation>>))

calculate(a, b, operation) ==
    calculate_except(
        IF lower(operation) = op_add THEN Fmt("{a} + {b} = {result}", a, b, Value(float_add(a, b)))
        ELSE IF lower(operation) = op_subtract THEN Fmt("{a} - {b} = {result}", a, b, Value(float_sub(a, b)))
        ELSE IF lower(operation) = op_multiply THEN Fmt("{a} × {b} = {result}", a, b, Value(float_mul(a, b)))
        ELSE IF lower(operation) = op_divide THEN
            IF b.n = 0 THEN Str("Error: Cannot divide by zero", <<>>)
            ELSE Fmt("{a} ÷ {b} = {result}", a, b, float_truediv(a, b))
        ELSE Str("Unknown operation: {operation}. Use: add, subtract, multiply, divide", <<operation>>))

\* the operation names the calculate tool is called with
Operations == {op_add, op_subtract, op_multiply, op_divide,
               upper(op_add), title(op_divide), upper(op_multiply), op_power, <<>>}

---------------------------------------------------------------------------
(* Python dicts and sorting *)

\* d.keys(), key in d, d[key] for a dict kept as its items in insertion order
keys(d) == [i \in 1..Len(d) |-> d[i][1]]
contains(d, k) == \E i \in 1..Len(d) : d[i][1] = k
lookup(d, k) == d[CHOOSE i \in 1..Len(d) : d[i][1] = k][2]

\* code point order of the characters that occur in the tables
CharOrder == <<" ">> \o UpperAlpha \o LowerAlpha
Ord(c) == CHOOSE i \in 1..Len(CharOrder) : CharOrder[i] = c

\* s < t on str
RECURSIVE str_lt(_, _)
str_lt(s, t) ==
    IF t = <<>> THEN FALSE
    ELSE IF s = <<>> THEN TRUE
    ELSE IF Head(s) = Head(t) THEN str_lt(Tail(s), Tail(t))
    ELSE Ord(Head(s)) < Ord(Head(t))

RECURSIVE insert_sorted(_, _)
insert_sorted(x, l) ==
    IF l = <<>> THEN <<x>>
    ELSE IF str_lt(l[1], x) THEN <<l[1]>> \o insert_sorted(x, Tail(l))
    ELSE <<x>> \o l
\* sorted(l)
RECURSIVE sorted(_)
sorted(l) == IF l = <<>> THEN <<>> ELSE insert_sorted(l[1], sorted(Tail(l)))

---------------------------------------------------------------------------
(* JSON documents and the Python operations the tools apply to them *)

JNull == [t |-> "null"]
JStr(s) == [t |-> "str", v |-> s]
JNum(k) == [t |-> "num", v |-> k]
JList(l) == [t |-> "list", v |-> l]
JObj(f) == [t |-> "obj", v |-> f]
JEmptyObj == [t |-> "obj", v |-> <<>>]

IsRaised(r) == "status" \in DOMAIN r /\ r.status = "raised"

\* x[key] for a str key: KeyError on a dict without the key, TypeError on
\* anything that is not a dict
getitem(x, key) ==
    IF IsRaised(x) THEN x
    ELSE IF x.t = "obj" THEN (IF key \in DOMAIN x.v THEN x.v[key] ELSE Raised("KeyError"))
    ELSE Raised("TypeError")

\* x.get(key, default): AttributeError on anything that is not a dict
dict_get(x, key, default) ==
    IF IsRaised(x) THEN x
    ELSE IF x.t = "obj" THEN (IF key \in DOMAIN x.v THEN x.v[key] ELSE default)
    ELSE Raised("AttributeError")

\* bool(x)
truthy(x) ==
    CASE x.t = "null" -> FALSE
      [] x.t = "str" -> x.v # <<>>
      [] x.t = "num" -> x.v # 0
      [] x.t = "list" -> x.v # <<>>
      [] x.t = "obj" -> DOMAIN x.v # {}

Min(a, b) == IF a < b THEN a ELSE b

slice_to_all(x, k) ==
    IF IsRaised(x) THEN x
    ELSE IF x.t \in {"str", "list"} THEN x
    ELSE Raised("TypeError")

\* x[:k]: a prefix of a str or a list, TypeError otherwise
slice_to(x, k) ==
    IF IsRaised(x) THEN x
    ELSE IF x.t \in {"str", "list"} THEN [t |-> x.t, v |-> SubSeq(x.v, 1, Min(k, Len(x.v)))]
    ELSE Raised("TypeError")

\* x[0]: the first element of a list or a str (IndexError if empty),
\* KeyError on a dict, TypeError otherwise
first_item(x) ==
    IF IsRaised(x) THEN x
    ELSE IF x.t = "list" THEN (IF x.v = <<>> THEN Raised("IndexError") ELSE x.v[1])
    ELSE IF x.t = "str" THEN (IF x.v = <<>> THEN Raised("IndexError") ELSE JStr(<<x.v[1]>>))
    ELSE IF x.t = "obj" THEN Raised("KeyError")
    ELSE Raised("TypeError")

\* a float computed by a tool, among JSON values
JFloat(x) == [t |-> "float", v |-> x]

\* the first exception among the values vs, or none
FirstRaised(vs) ==
    IF \E i \in 1..Len(vs) : IsRaised(vs[i])
    THEN vs[CHOOSE i \in 1..Len(vs) : IsRaised(vs[i]) /\ \A j \in 1..(i - 1) : ~IsRaised(vs[j])]
    ELSE JNull

---------------------------------------------------------------------------
(* The upstream weather service *)

\* what one HTTP GET can come to
NetworkError == [kind |-> "network_error"]
HttpError == [kind |-> "http_error"]
BadJson == [kind |-> "bad_json"]
Ok(body) == [kind |-> "ok", body |-> body]

\* one HTTP GET made by a tool: the endpoint, what it was asked for, what came back
Get(endpoint, at, reply) == [endpoint |-> endpoint, at |-> at, reply |-> reply]

ForecastUrl == JStr(<<"https://api.weather.gov/gridpoints/BOU/62,60/forecast">>)
StationsUrl == JStr(<<"https://api.weather.gov/gridpoints/BOU/62,60/stations">>)

PointsFull == JObj([properties |-> JObj([forecast |-> ForecastUrl, gridId |-> JStr(<<"BOU">>),
                                         gridX |-> JNum(62), gridY |-> JNum(60),
                                         observationStations |-> StationsUrl])])
\* bodies of GET /points/{lat},{lon}
PointsBodies == {
    PointsFull,
    JEmptyObj,
    JNull,
    JObj([properties |-> JNull]),
    JObj([properties |-> JEmptyObj]),
    JObj([title |-> JStr(<<"Unexpected Problem">>)]),
    JObj([properties |-> JObj([forecast |-> ForecastUrl, gridX |-> JNum(62), gridY |-> JNum(60)])]) }

\* a text of n characters
Text(n) == [i \in 1..n |-> IF i % 10 = 0 THEN " " ELSE "x"]

PeriodNames == <<"Today", "Tonight", "Monday", "Monday Night", "Tuesday", "Tuesday Night", "Wednesday">>
Period(k) == JObj([name |-> JStr(<<PeriodNames[k]>>), temperature |-> JNum(70 + k),
                   temperatureUnit |-> JStr(<<"F">>), shortForecast |-> JStr(<<"Sunny">>),
                   detailedForecast |-> JStr(<<"S","u","n","n","y",".">>)])
PeriodNoName == JObj([temperature |-> JNum(70), temperatureUnit |-> JStr(<<"F">>),
                      shortForecast |-> JStr(<<"Sunny">>),
                      detailedForecast |-> JStr(<<"S","u","n","n","y",".">>)])
PeriodNullDetail == JObj([name |-> JStr(<<"Tonight">>), temperature |-> JNum(55),
                          temperatureUnit |-> JStr(<<"F">>), shortForecast |-> JStr(<<"Clear">>),
                          detailedForecast |-> JNull])
PeriodNoDetail == JObj([name |-> JStr(<<"Tonight">>), temperature |-> JNum(55),
                        temperatureUnit |-> JStr(<<"F">>), shortForecast |-> JStr(<<"Clear">>)])

\* a period whose detailed forecast has 145 + 5k characters
PeriodLong(k) == JObj([name |-> JStr(<<PeriodNames[k]>>), temperature |-> JNum(70 + k),
                       temperatureUnit |-> JStr(<<"F">>), shortForecast |-> JStr(<<"Sunny">>),
                       detailedForecast |-> JStr(Text(145 + 5 * k))])

Forecast(periods) == JObj([properties |-> JObj([periods |-> periods])])
\* bodies of GET <forecast url>
ForecastBodies == {
    Forecast(JList(<<>>)),
    Forecast(JList(<<Period(1)>>)),
    Forecast(JList(<<Period(1), Period(2)>>)),
    Forecast(JList([k \in 1..3 |-> Period(4 - k)])),
    Forecast(JList([k \in 1..4 |-> Period(k)])),
    Forecast(JList([k \in 1..7 |-> Period(k)])),
    Forecast(JList([k \in 1..6 |-> PeriodLong(7 - k)])),
    Forecast(JList(<<PeriodLong(1), PeriodLong(2)>>)),
    Forecast(JList(<<Period(1), PeriodNoName>>)),
    Forecast(JList(<<PeriodNullDetail>>)),
    Forecast(JList(<<PeriodNoDetail>>)),
    Forecast(JNull),
    JEmptyObj,
    JNull,
    JObj([properties |-> JNull]),
    JObj([properties |-> JEmptyObj]) }

EventNames == <<"Flood Warning", "Heat Advisory", "Winter Storm Watch", "Red Flag Warning",
                "Wind Advisory", "Dense Fog Advisory", "Freeze Warning">>
\* "<k areas separated by ;>"
AreaDesc(k) == IF k = 0 THEN <<>> ELSE join(<<";", " ">>, [i \in 1..k |-> <<UpperAlpha[i]>>])
\* the k-th alert of a feature list: k areas, a description of 195 + 5k characters
Alert(k) == JObj([properties |-> JObj([event |-> JStr(<<EventNames[k]>>),
                                       severity |-> JStr(<<"Severe">>),
                                       urgency |-> JStr(<<"Expected">>),
                                       areaDesc |-> JStr(AreaDesc(k)),
                                       headline |-> JStr(<<"Headline">>),
                                       description |-> JStr(Text(195 + 5 * k))])])
AlertBare == JObj([properties |-> JEmptyObj])
AlertNullAreas == JObj([properties |-> JObj([event |-> JStr(<<"Flood Warning">>),
                                             areaDesc |-> JNull])])
AlertNumericDescription == JObj([properties |-> JObj([description |-> JNum(7)])])
AlertNoProperties == JObj([id |-> JStr(<<"urn:oid:1">>)])

Features(features) == JObj([type |-> JStr(<<"FeatureCollection">>), features |-> features])
\* bodies of GET /alerts/active?point={lat},{lon}
AlertsBodies == {
    Features(JList(<<>>)),
    JObj([type |-> JStr(<<"FeatureCollection">>)]),
    JEmptyObj,
    Features(JNull),
    JNull,
    Features(JList(<<Alert(1)>>)),
    Features(JList(<<Alert(2), Alert(1)>>)),
    Features(JList([k \in 1..5 |-> Alert(k)])),
    Features(JList([k \in 1..7 |-> Alert(8 - k)])),
    Features(JList(<<AlertBare>>)),
    Features(JList(<<Alert(1), AlertNullAreas>>)),
    Features(JList(<<AlertNumericDescription>>)),
    Features(JList(<<AlertNoProperties>>)),
    Features(JList(<<JNull>>)),
    Features(JNum(3)),
    Features(JStr(<<"n","o","n","e">>)) }

StationUrl == JStr(<<"https://api.weather.gov/stations/KDEN">>)
Station == JObj([id |-> StationUrl, properties |-> JObj([name |-> JStr(<<"Denver International Airport">>)])])
StationsFull == JObj([features |-> JList(<<Station>>)])
\* bodies of GET <observationStations url>
StationsBodies == {
    StationsFull,
    JObj([features |-> JList(<<>>)]),
    JObj([features |-> JNull]),
    JEmptyObj,
    JNull,
    JObj([features |-> JList(<<JObj([id |-> StationUrl])>>)]),
    JObj([features |-> JList(<<JObj([properties |-> JEmptyObj])>>)]) }

\* a field that an observation does not have
Absent == [t |-> "absent"]
Quantity(value) == JObj([unitCode |-> JStr(<<"wmoUnit:unit">>), value |-> value])
\* what an observation can carry for one measurement: nothing, null, a
\* quantity whose value is null, zero or another number
Measurements == {Absent, JNull, Quantity(JNull), Quantity(JNum(0)), Quantity(JNum(20))}
Temperatures == Measurements \cup {Quantity(JNum(-5))}

\* an observation with the given measurements
Observation(temperature, windSpeed, windDirection, relativeHumidity) ==
    LET all == [timestamp |-> JStr(<<"2024-01-01T00:00:00+00:00">>),
                textDescription |-> JStr(<<"Clear">>),
                temperature |-> temperature, windSpeed |-> windSpeed,
                windDirection |-> windDirection, relativeHumidity |-> relativeHumidity]
    IN  JObj([properties |-> JObj([k \in {f \in DOMAIN all : all[f].t # "absent"} |-> all[k]])])

MeasuredBodies ==
    {Observation(t, w, d, h) : t \in Temperatures, w \in Measurements,
                               d \in Measurements, h \in Measurements}
\* bodies of GET <station url>/observations/latest
ObservationBodies == MeasuredBodies \cup {
    JNull,
    JEmptyObj,
    JObj([properties |-> JNull]),
    JObj([properties |-> JEmptyObj]),
    JObj([properties |-> JObj([temperature |-> Quantity(JStr(<<"20">>))])]),
    JObj([properties |-> JObj([textDescription |-> JNull, windDirection |-> Quantity(JStr(<<"N">>))])]) }

Replies(bodies) == {NetworkError, HttpError, BadJson} \cup {Ok(b) : b \in bodies}

---------------------------------------------------------------------------
(* weather_server.py *)

\* except requests.exceptions.RequestException / except KeyError of
\* get_weather_forecast; any other exception leaves the function
forecast_except(r) ==
    IF ~IsRaised(r) THEN r
    ELSE IF r.kind = "RequestException" THEN Str("Error fetching weather data: {e}", <<r.kind>>)
    ELSE IF r.kind = "KeyError" THEN Str("Error parsing weather data: {e}", <<r.kind>>)
    ELSE r

\* the three result lines of one period
server_row(period) ==
    LET name == getitem(period, "name")
        temperature == getitem(period, "temperature")
        unit == getitem(period, "temperatureUnit")
        short == getitem(period, "shortForecast")
        details == slice_to(getitem(period, "detailedForecast"), 150)
        e == FirstRaised(<<name, temperature, unit, short, details>>)
    IN  IF IsRaised(e) THEN e ELSE JList(<<name, temperature, unit, short, details>>)

\* one line of the forecast of 1_basic_agent.py
basic_row(period) ==
    LET name == getitem(period, "name")
        temperature == getitem(period, "temperature")
        unit == getitem(period, "temperatureUnit")
        short == getitem(period, "shortForecast")
        e == FirstRaised(<<name, temperature, unit, short>>)
    IN  IF IsRaised(e) THEN e ELSE JList(<<name, temperature, unit, short>>)

Unknown == JStr(<<"U","n","k","n","o","w","n">>)
Semicolon == ";"

\* s.split(';') of a JSON value: AttributeError on anything that is not a str
str_split(x, sep) ==
    IF IsRaised(x) THEN x
    ELSE IF x.t = "str" THEN JList(split(x.v, sep))
    ELSE Raised("AttributeError")

\* the lines of one alert of get_weather_alerts: Alert, Severity, Urgency and
\* Areas always, Headline and Description when the field is truthy
alert_row(alert) ==
    LET props == getitem(alert, "properties")
        alert_event == dict_get(props, "event", Unknown)
        severity == dict_get(props, "severity", Unknown)
        urgency == dict_get(props, "urgency", Unknown)
        parts == slice_to(str_split(dict_get(props, "areaDesc", JStr(<<>>)), Semicolon), 3)
        areas == IF IsRaised(parts) THEN parts ELSE JStr(join(CommaSpace, parts.v))
        headline == dict_get(props, "headline", JNull)
        description == dict_get(props, "description", JNull)
        cut == slice_to(description, 200)
        always == [event |-> alert_event, severity |-> severity, urgency |-> urgency, areas |-> areas]
        with_headline == IF truthy(headline) THEN [headline |-> headline] @@ always ELSE always
    IN  IF IsRaised(alert_event) THEN alert_event
        ELSE IF IsRaised(areas) THEN areas
        ELSE IF ~truthy(description) THEN JObj(with_headline)
        ELSE IF IsRaised(cut) THEN cut
        ELSE JObj([description |-> cut] @@ with_headline)

\* the loop body of the tool `which`
row(which, period) ==
    IF which = "server" THEN server_row(period)
    ELSE IF which = "alert" THEN alert_row(period)
    ELSE basic_row(period)

RECURSIVE rows_of(_, _)
rows_of(which, l) ==
    IF l = <<>> THEN JList(<<>>)
    ELSE LET first == row(which, l[1])
             rest == rows_of(which, Tail(l))
         IN  IF IsRaised(first) THEN first
             ELSE IF IsRaised(rest) THEN rest
             ELSE JList(<<first>> \o rest.v)

\* for period in periods: iterating a list runs the loop body on each
\* element; a str yields one-character strs; nothing else here is iterable
for_each(which, periods) ==
    IF IsRaised(periods) THEN periods
    ELSE IF periods.t = "list" THEN rows_of(which, periods.v)
    ELSE IF periods.t = "str" THEN rows_of(which, [i \in 1..Len(periods.v) |-> JStr(<<periods.v[i]>>)])
    ELSE Raised("TypeError")

get_weather_forecast(latitude, longitude, location_name, r1, r2) ==
    LET g1 == Get("points", <<latitude, longitude>>, r1)
        props == getitem(r1.body, "properties")
        forecast_url == getitem(props, "forecast")
        office == getitem(props, "gridId")
        grid_x == getitem(props, "gridX")
        grid_y == getitem(props, "gridY")
        e1 == FirstRaised(<<forecast_url, office, grid_x, grid_y>>)
        g2 == Get("forecast", forecast_url, r2)
        periods == getitem(getitem(r2.body, "properties"), "periods")
        rows == for_each("server", slice_to(periods, 5))
    IN  IF r1.kind # "ok"
        THEN [result |-> forecast_except(Raised("RequestException")), fetched |-> <<g1>>]
        ELSE IF IsRaised(e1)
        THEN [result |-> forecast_except(e1), fetched |-> <<g1>>]
        ELSE IF r2.kind # "ok"
        THEN [result |-> forecast_except(Raised("RequestException")), fetched |-> <<g1, g2>>]
        ELSE IF IsRaised(rows)
        THEN [result |-> forecast_except(rows), fetched |-> <<g1, g2>>]
        ELSE [result |-> Str("Weather Forecast for {location_name}\nWeather Office: {office}, Grid: ({grid_x}, {grid_y})\n\n{rows}",
                             <<location_name, office, grid_x, grid_y, rows>>),
              fetched |-> <<g1, g2>>]

\* US_CITIES: the dict as its items in insertion order
US_CITIES == <<
    << <<"N","e","w"," ","Y","o","r","k">>, <<"40.7128", "-74.0060">> >>,
    << <<"L","o","s"," ","A","n","g","e","l","e","s">>, <<"34.0522", "-118.2437">> >>,
    << <<"C","h","i","c","a","g","o">>, <<"41.8781", "-87.6298">> >>,
    << <<"H","o","u","s","t","o","n">>, <<"29.7604", "-95.3698">> >>,
    << <<"P","h","o","e","n","i","x">>, <<"33.4484", "-112.0740">> >>,
    << <<"P","h","i","l","a","d","e","l","p","h","i","a">>, <<"39.9526", "-75.1652">> >>,
    << <<"S","a","n"," ","A","n","t","o","n","i","o">>, <<"29.4241", "-98.4936">> >>,
    << <<"S","a","n"," ","D","i","e","g","o">>, <<"32.7157", "-117.1611">> >>,
    << <<"D","a","l","l","a","s">>, <<"32.7767", "-96.7970">> >>,
    << <<"D","e","n","v","e","r">>, <<"39.7392", "-104.9903">> >> >>

\* city_info: the dict as its items in insertion order
city_info == <<
    << <<"N","e","w"," ","Y","o","r","k">>,
      "Population: ~8.3M, Known for: Times Square, Statue of Liberty">>,
    << <<"L","o","s"," ","A","n","g","e","l","e","s">>,
      "Population: ~3.9M, Known for: Hollywood, Beaches">>,
    << <<"C","h","i","c","a","g","o">>,
      "Population: ~2.7M, Known for: Deep dish pizza, Architecture">>,
    << <<"H","o","u","s","t","o","n">>,
      "Population: ~2.3M, Known for: Space Center, Oil industry">>,
    << <<"P","h","o","e","n","i","x">>,
      "Population: ~1.6M, Known for: Desert, Sunshine">>,
    << <<"P","h","i","l","a","d","e","l","p","h","i","a">>,
      "Population: ~1.6M, Known for: Liberty Bell, Cheesesteaks">>,
    << <<"S","a","n"," ","A","n","t","o","n","i","o">>,
      "Population: ~1.5M, Known for: The Alamo, River Walk">>,
    << <<"S","a","n"," ","D","i","e","g","o">>,
      "Population: ~1.4M, Known for: Zoo, Perfect weather">>,
    << <<"D","a","l","l","a","s">>,
      "Population: ~1.3M, Known for: Cowboys, BBQ">>,
    << <<"D","e","n","v","e","r">>,
      "Population: ~715K, Known for: Mountains, Mile high city">> >>

\* cities: the dict as its items in insertion order
cities == <<
    << <<"s","a","n"," ","f","r","a","n","c","i","s","c","o">>, <<"37.7749", "-122.4194">> >>,
    << <<"n","e","w"," ","y","o","r","k">>, <<"40.7128", "-74.0060">> >>,
    << <<"l","o","s"," ","a","n","g","e","l","e","s">>, <<"34.0522", "-118.2437">> >>,
    << <<"c","h","i","c","a","g","o">>, <<"41.8781", "-87.6298">> >>,
    << <<"h","o","u","s","t","o","n">>, <<"29.7604", "-95.3698">> >>,
    << <<"p","h","o","e","n","i","x">>, <<"33.4484", "-112.0740">> >>,
    << <<"p","h","i","l","a","d","e","l","p","h","i","a">>, <<"39.9526", "-75.1652">> >>,
    << <<"s","a","n"," ","a","n","t","o","n","i","o">>, <<"29.4241", "-98.4936">> >>,
    << <<"s","a","n"," ","d","i","e","g","o">>, <<"32.7157", "-117.1611">> >>,
    << <<"d","a","l","l","a","s">>, <<"32.7767", "-96.7970">> >>,
    << <<"m","i","a","m","i">>, <<"25.7617", "-80.1918">> >>,
    << <<"a","t","l","a","n","t","a">>, <<"33.7490", "-84.3880">> >>,
    << <<"b","o","s","t","o","n">>, <<"42.3601", "-71.0589">> >>,
    << <<"s","e","a","t","t","l","e">>, <<"47.6062", "-122.3321">> >>,
    << <<"d","e","n","v","e","r">>, <<"39.7392", "-104.9903">> >> >>

NotFound(city_name, available) ==
    Str("City '{city_name}' not found. Available cities: {available}", <<city_name, available>>)

\* get_city_weather of weather_server.py
server_get_city_weather(city_name, r1, r2) ==
    LET city_lower == lower(city_name)
    IN  IF contains(cities, city_lower)
        THEN get_weather_forecast(lookup(cities, city_lower)[1], lookup(cities, city_lower)[2],
                                  title(city_name), r1, r2)
        ELSE [result |-> NotFound(city_name, join(CommaSpace, sorted(keys(cities)))),
              fetched |-> <<>>]

\* except Exception as e of get_current_conditions
conditions_except(r) ==
    IF IsRaised(r) THEN Str("Error getting current conditions: {e}", <<r.kind>>) ELSE r

NA == JStr(<<"N","/","A">>)

\* float arithmetic on a JSON value: TypeError unless it is a number
as_float(x) == IF IsRaised(x) THEN x ELSE IF x.t = "num" THEN JFloat(Float(x.v)) ELSE Raised("TypeError")

\* (temp_c * 9/5) + 32
temp_f(temp_c) == float_add(float_truediv(float_mul(temp_c, Float(9)), Float(5)).vals[1], Float(32))
\* wind_ms * 2.237
wind_mph(wind_ms) == float_mul(wind_ms, Norm(2237, 1000))

\* props.get(key, {}).get('value')
measured(props, key) == dict_get(dict_get(props, key, JEmptyObj), "value", JNull)

\* the line of one measurement: if props.get(key, {}).get('value'): ...;
\* null (no line) when the value is falsy
measurement_line(props, key) ==
    LET value == measured(props, key)
        number == as_float(value)
    IN  IF IsRaised(value) THEN value
        ELSE IF ~truthy(value) THEN JNull
        ELSE IF key = "windDirection" THEN value
        ELSE IF IsRaised(number) THEN number
        ELSE IF key = "temperature" THEN JObj([f |-> JFloat(temp_f(number.v)), c |-> number])
        ELSE IF key = "windSpeed" THEN JFloat(wind_mph(number.v))
        ELSE number

\* the lines of the report, top to bottom, each null when it is left out
report_lines(stations_data, props) ==
    LET conditions == dict_get(props, "textDescription", JNull)
    IN  [station |-> getitem(getitem(first_item(getitem(stations_data, "features")), "properties"), "name"),
         time |-> dict_get(props, "timestamp", NA),
         temperature |-> measurement_line(props, "temperature"),
         conditions |-> IF IsRaised(conditions) \/ truthy(conditions) THEN conditions ELSE JNull,
         wind_speed |-> measurement_line(props, "windSpeed"),
         wind_direction |-> measurement_line(props, "windDirection"),
         humidity |-> measurement_line(props, "relativeHumidity")]

LineOrder == <<"station", "time", "temperature", "conditions", "wind_speed", "wind_direction", "humidity">>

get_current_conditions(latitude, longitude, location_name, r1, r2, r3) ==
    LET g1 == Get("points", <<latitude, longitude>>, r1)
        stations_url == getitem(getitem(r1.body, "properties"), "observationStations")
        g2 == Get("stations", stations_url, r2)
        features == getitem(r2.body, "features")
        station_url == getitem(first_item(features), "id")
        g3 == Get("observations/latest", station_url, r3)
        props == getitem(r3.body, "properties")
        lines == report_lines(r2.body, props)
        e == FirstRaised([i \in 1..Len(LineOrder) |-> lines[LineOrder[i]]])
        shown == {l \in DOMAIN lines : lines[l].t # "null"}
    IN  IF r1.kind # "ok"
        THEN [result |-> conditions_except(Raised("RequestException")), fetched |-> <<g1>>]
        ELSE IF IsRaised(stations_url)
        THEN [result |-> conditions_except(stations_url), fetched |-> <<g1>>]
        ELSE IF r2.kind # "ok"
        THEN [result |-> conditions_except(Raised("RequestException")), fetched |-> <<g1, g2>>]
        ELSE IF IsRaised(features)
        THEN [result |-> conditions_except(features), fetched |-> <<g1, g2>>]
        ELSE IF ~truthy(features)
        THEN [result |-> Str("No observation stations found for {location_name}", <<location_name>>),
              fetched |-> <<g1, g2>>]
        ELSE IF IsRaised(station_url)
        THEN [result |-> conditions_except(station_url), fetched |-> <<g1, g2>>]
        ELSE IF r3.kind # "ok"
        THEN [result |-> conditions_except(Raised("RequestException")), fetched |-> <<g1, g2, g3>>]
        ELSE IF IsRaised(props)
        THEN [result |-> conditions_except(props), fetched |-> <<g1, g2, g3>>]
        ELSE IF IsRaised(e)
        THEN [result |-> conditions_except(e), fetched |-> <<g1, g2, g3>>]
        ELSE [result |-> Str("Current Conditions for {location_name}\n{lines}",
                             <<location_name, JObj([l \in shown |-> lines[l]])>>),
              fetched |-> <<g1, g2, g3>>]

\* except Exception as e of get_weather_alerts
alerts_except(r) ==
    IF IsRaised(r) THEN Str("Error getting weather alerts: {e}", <<r.kind>>) ELSE r

NoAlerts(location_name) == Str("No active weather alerts for {location_name}", <<location_name>>)

get_weather_alerts_subscript(latitude, longitude, location_name, r) ==
    LET g == Get("alerts", <<latitude, longitude>>, r)
        features == getitem(r.body, "features")
        rows == for_each("alert", slice_to(features, 5))
    IN  [result |-> alerts_except(
                        IF r.kind # "ok" THEN Raised("RequestException")
                        ELSE IF IsRaised(features) THEN features
                        ELSE IF ~truthy(features) THEN NoAlerts(location_name)
                        ELSE IF IsRaised(rows) THEN rows
                        ELSE Str("Active Weather Alerts for {location_name}\n{'=' * 50}\n\n{alerts}",
                                 <<location_name, rows>>)),
         fetched |-> <<g>>]

get_weather_alerts(latitude, longitude, location_name, r) ==
    LET g == Get("alerts", <<latitude, longitude>>, r)
        features == dict_get(r.body, "features", JList(<<>>))
        rows == for_each("alert", slice_to(features, 5))
    IN  [result |-> alerts_except(
                        IF r.kind # "ok" THEN Raised("RequestException")
                        ELSE IF IsRaised(features) THEN features
                        ELSE IF ~truthy(features) THEN NoAlerts(location_name)
                        ELSE IF IsRaised(rows) THEN rows
                        ELSE Str("Active Weather Alerts for {location_name}\n{'=' * 50}\n\n{alerts}",
                                 <<location_name, rows>>)),
         fetched |-> <<g>>]

---------------------------------------------------------------------------
(* 1_basic_agent.py: get_city_weather, get_city_info *)

\* make_nws_request: the JSON body, or None after any exception
make_nws_request(reply) == IF reply.kind = "ok" THEN reply.body ELSE JNull

\* get_city_weather of 1_basic_agent.py
basic_get_city_weather(city_name, r1, r2) ==
    LET at == lookup(US_CITIES, city_name)
        g1 == Get("points", at, r1)
        points_data == make_nws_request(r1)
        forecast_url == getitem(getitem(points_data, "properties"), "forecast")
        g2 == Get("forecast", forecast_url, r2)
        forecast_data == make_nws_request(r2)
        periods == getitem(getitem(forecast_data, "properties"), "periods")
        rows == for_each("basic", slice_to(periods, 3))
    IN  IF ~contains(US_CITIES, city_name)
        THEN [result |-> NotFound(city_name, join(CommaSpace, keys(US_CITIES))), fetched |-> <<>>]
        ELSE IF ~truthy(points_data)
        THEN [result |-> Str("Unable to fetch forecast data for {city_name}.", <<city_name>>),
              fetched |-> <<g1>>]
        ELSE IF IsRaised(forecast_url)
        THEN [result |-> forecast_url, fetched |-> <<g1>>]
        ELSE IF ~truthy(forecast_data)
        THEN [result |-> Str("Unable to fetch detailed forecast for {city_name}.", <<city_name>>),
              fetched |-> <<g1, g2>>]
        ELSE IF IsRaised(rows)
        THEN [result |-> rows, fetched |-> <<g1, g2>>]
        ELSE [result |-> Str("{city_name} Weather Forecast:\\n{forecasts}", <<city_name, rows>>),
              fetched |-> <<g1, g2>>]

get_city_info_first_five(city_name) ==
    IF contains(city_info, city_name)
    THEN Str("{city_name}: {city_info[city_name]}", <<city_name, lookup(city_info, city_name)>>)
    ELSE NotFound(city_name, join(CommaSpace, SubSeq(keys(city_info), 1, 5)))

get_city_info(city_name) ==
    IF contains(city_info, city_name)
    THEN Str("{city_name}: {city_info[city_name]}", <<city_name, lookup(city_info, city_name)>>)
    ELSE NotFound(city_name, join(CommaSpace, keys(city_info)))

---------------------------------------------------------------------------
(* The tool functions called on their own *)

Nowhereville == <<"N","o","w","h","e","r","e","v","i","l","l","e">>
\* the city names the lookup tools are called with: every table entry as
\* written, in lower, upper and title case, and names in no table
CityInputs ==
    LET entries == {US_CITIES[i][1] : i \in 1..Len(US_CITIES)} \cup {cities[i][1] : i \in 1..Len(cities)}
    IN  entries \cup {lower(e) : e \in entries} \cup {upper(e) : e \in entries}
          \cup {title(e) : e \in entries}
          \cup {Nowhereville, <<>>, <<"D","e","n","v","e","r"," ">>, <<"d","E","n","V","e","R">>,
                <<"D","e","n">>, <<"S","a","n">>}

Location == <<"L","o","c","a","t","i","o","n">>
\* the arguments get_weather_forecast is called with
Coordinates == {<<"39.7392", "-104.9903">>, <<"0.0", "0.0">>}
LocationNames == {Location, <<"D","e","n","v","e","r">>}

\* the exponents power is called with
Exponents == {Float(k) : k \in -MaxNum..MaxNum}

NoResult == [status |-> "none", kind |-> "", text |-> "", vals |-> <<>>]

Call(name, a, out) ==
    /\ tool' = name
    /\ args' = a
    /\ result' = out.result
    /\ fetched' = out.fetched
    /\ UNCHANGED loopVars

Local(r) == [result |-> r, fetched |-> <<>>]

\* the arguments of the documented scenario "Calculate 25 plus 17", as the
\* floats that the annotations a: float, b: float make of them
Scenario == {Float(25), Float(17)}

Call_calculate ==
    /\ tool = "none"
    /\ \E a \in Numbers \cup Scenario, b \in Numbers \cup Scenario, operation \in Operations :
        Call("calculate", <<a, b, operation>>, Local(calculate(a, b, operation)))

Call_get_city_info ==
    /\ tool = "none"
    /\ \E city_name \in CityInputs :
        Call("get_city_info", <<city_name>>, Local(get_city_info(city_name)))

Call_basic_get_city_weather ==
    /\ tool = "none"
    /\ \E city_name \in CityInputs, r1 \in Replies(PointsBodies), r2 \in Replies(ForecastBodies) :
        Call("basic.get_city_weather", <<city_name>>, basic_get_city_weather(city_name, r1, r2))

Call_add ==
    /\ tool = "none"
    /\ \E a \in Numbers, b \in Numbers : Call("add", <<a, b>>, Local(add(a, b)))

Call_multiply ==
    /\ tool = "none"
    /\ \E a \in Numbers, b \in Numbers : Call("multiply", <<a, b>>, Local(multiply(a, b)))

Call_subtract ==
    /\ tool = "none"
    /\ \E a \in Numbers, b \in Numbers : Call("subtract", <<a, b>>, Local(subtract(a, b)))

Call_divide ==
    /\ tool = "none"
    /\ \E a \in Numbers, b \in Numbers : Call("divide", <<a, b>>, Local(divide(a, b)))

Call_power ==
    /\ tool = "none"
    /\ \E base \in Numbers, exponent \in Exponents :
        Call("power", <<base, exponent>>, Local(power(base, exponent)))

Call_get_weather_forecast ==
    /\ tool = "none"
    /\ \E at \in Coordinates, location_name \in LocationNames,
       r1 \in Replies(PointsBodies), r2 \in Replies(ForecastBodies) :
        Call("get_weather_forecast", <<at[1], at[2], location_name>>,
             get_weather_forecast(at[1], at[2], location_name, r1, r2))

Call_server_get_city_weather ==
    /\ tool = "none"
    /\ \E city_name \in CityInputs, r1 \in Replies(PointsBodies), r2 \in Replies(ForecastBodies) :
        Call("server.get_city_weather", <<city_name>>, server_get_city_weather(city_name, r1, r2))

Call_get_weather_alerts ==
    /\ tool = "none"
    /\ \E at \in Coordinates, location_name \in LocationNames, r \in Replies(AlertsBodies) :
        Call("get_weather_alerts", <<at[1], at[2], location_name>>,
             get_weather_alerts(at[1], at[2], location_name, r))

\* the longest text drawn from AverageAlphabet
MaxLen == 3
AverageAlphabet == {"1", "2", ".", ",", " ", "-", "a"}
RECURSIVE Texts(_)
\* every text of at most k characters of AverageAlphabet
Texts(k) ==
    IF k = 0 THEN {<<>>}
    ELSE Texts(k - 1) \cup {Append(t, c) : t \in {u \in Texts(k - 1) : Len(u) = k - 1}, c \in AverageAlphabet}

\* longer texts, each with the numbers it lists
AverageCases == {
    [text |-> <<"1",",","2",",","3">>, numbers |-> <<Float(1), Float(2), Float(3)>>],
    [text |-> <<"1",",","2",",","3",",","4">>, numbers |-> <<Float(1), Float(2), Float(3), Float(4)>>],
    [text |-> <<"1",".","5",","," ","2",".","5">>, numbers |-> <<Norm(3, 2), Norm(5, 2)>>],
    [text |-> <<" ","1","0"," ",","," ","2","0"," ">>, numbers |-> <<Float(10), Float(20)>>],
    [text |-> <<"-","1",",","+","1">>, numbers |-> <<Float(-1), Float(1)>>],
    [text |-> <<".","5",",","1",".">>, numbers |-> <<Norm(1, 2), Float(1)>>],
    [text |-> <<"0",".","2","5">>, numbers |-> <<Norm(1, 4)>>] }

AverageInputs == Texts(MaxLen) \cup {c.text : c \in AverageCases}
    \cup { <<"1",",",",","2">>, <<"1",",","2",",">>, <<"o","n","e",",","t","w","o">>,
           <<"1"," ","2",",","3">>, <<"1",".","2",".","3">>, <<"-","-","1",",","2">>,
           <<"1",";","2",";","3">> }

Call_get_current_conditions ==
    /\ tool = "none"
    /\ \E location_name \in LocationNames, r1 \in Replies(PointsBodies),
          r2 \in Replies(StationsBodies), r3 \in Replies(ObservationBodies) :
        Call("get_current_conditions", <<"39.7392", "-104.9903", location_name>>,
             get_current_conditions("39.7392", "-104.9903", location_name, r1, r2, r3))

Call_calculate_average ==
    /\ tool = "none"
    /\ \E numbers \in AverageInputs :
        Call("calculate_average", <<numbers>>, Local(calculate_average(numbers)))

\* the tool's outcome has been handed to its caller
ToolReturn ==
    /\ tool # "none"
    /\ tool' = "none"
    /\ args' = <<>>
    /\ result' = NoResult
    /\ fetched' = <<>>
    /\ UNCHANGED loopVars

ToolInit ==
    /\ tool = "none"
    /\ args = <<>>
    /\ result = NoResult
    /\ fetched = <<>>
    /\ script = "basic"
    /\ pc = "start"
    /\ line = <<>>
    /\ messages = <<>>
    /\ steps = 0
    /\ conns = {}
    /\ tools = {}
    /\ agent = FALSE
    /\ printed = "banner"
    /\ event = "start"
    /\ eof = FALSE
    /\ errors = 0

ToolNext ==
    \/ Call_calculate
    \/ Call_get_city_info
    \/ Call_basic_get_city_weather
    \/ Call_add
    \/ Call_multiply
    \/ Call_subtract
    \/ Call_divide
    \/ Call_power
    \/ Call_get_weather_forecast
    \/ Call_server_get_city_weather
    \/ Call_get_weather_alerts
    \/ Call_get_current_conditions
    \/ Call_calculate_average
    \/ ToolReturn

\* the tool functions, each called with every input of the bounded sets
ToolSpec == ToolInit /\ [][ToolNext]_vars

---------------------------------------------------------------------------
(* Properties of the tool functions *)

Zero == Float(0)
DivideByZeroText == Str("Error: Cannot divide by zero", <<>>)

\* C1: dividing by zero, calculate(a, 0, "divide") of the basic agent and
\* divide(a, 0) of the math server, returns the text
\* "Error: Cannot divide by zero" as an ordinary result and raises nothing.
C1_DivideByZeroReturnsError ==
    /\ (tool = "calculate" /\ args[3] = op_divide /\ args[2] = Zero) => result = DivideByZeroText
    /\ (tool = "divide" /\ args[2] = Zero) => result = DivideByZeroText

C1_Witness ==
    tool = "divide" /\ args[1] = Float(1) /\ args[2] = Zero /\ result.status = "returned"

\* r is the sum, difference, product, quotient of the rationals a and b,
\* by cross-multiplication in the integers
IsSum(r, a, b) == r.d > 0 /\ r.n * a.d * b.d = (a.n * b.d + b.n * a.d) * r.d
IsDifference(r, a, b) == r.d > 0 /\ r.n * a.d * b.d = (a.n * b.d - b.n * a.d) * r.d
IsProduct(r, a, b) == r.d > 0 /\ r.n * a.d * b.d = a.n * b.n * r.d
IsQuotient(r, a, b) == r.d > 0 /\ b.n # 0 /\ r.n * a.d * b.n = a.n * b.d * r.d

ReturnsFloat(r) == r.status = "returned" /\ r.kind = "float"
ReturnsText(r, text) == r.status = "returned" /\ r.kind = "str" /\ r.text = text

\* C2: for add, subtract, multiply and divide and every pair (a, b), b # 0
\* for divide, the result is a+b, a-b, a*b, a/b: the value returned by the
\* math server's tools, the value shown after "=" by calculate.
C2_ArithmeticIsCorrect ==
    /\ tool = "add" => ReturnsFloat(result) /\ IsSum(result.vals[1], args[1], args[2])
    /\ tool = "subtract" => ReturnsFloat(result) /\ IsDifference(result.vals[1], args[1], args[2])
    /\ tool = "multiply" => ReturnsFloat(result) /\ IsProduct(result.vals[1], args[1], args[2])
    /\ (tool = "divide" /\ args[2] # Zero) =>
           ReturnsFloat(result) /\ IsQuotient(result.vals[1], args[1], args[2])
    /\ (tool = "calculate" /\ args[3] = op_add) =>
           /\ ReturnsText(result, "{a} + {b} = {result}")
           /\ result.vals[1] = args[1] /\ result.vals[2] = args[2]
           /\ IsSum(result.vals[3], args[1], args[2])
    /\ (tool = "calculate" /\ args[3] = op_subtract) =>
           /\ ReturnsText(result, "{a} - {b} = {result}")
           /\ result.vals[1] = args[1] /\ result.vals[2] = args[2]
           /\ IsDifference(result.vals[3], args[1], args[2])
    /\ (tool = "calculate" /\ args[3] = op_multiply) =>
           /\ ReturnsText(result, "{a} × {b} = {result}")
           /\ result.vals[1] = args[1] /\ result.vals[2] = args[2]
           /\ IsProduct(result.vals[3], args[1], args[2])
    /\ (tool = "calculate" /\ args[3] = op_divide /\ args[2] # Zero) =>
           /\ ReturnsText(result, "{a} ÷ {b} = {result}")
           /\ result.vals[1] = args[1] /\ result.vals[2] = args[2]
           /\ IsQuotient(result.vals[3], args[1], args[2])

C2_Witness ==
    /\ tool = "calculate" /\ args = <<Float(1), Float(2), op_divide>>
    /\ result.status = "returned" /\ result.vals[3] = [n |-> 1, d |-> 2]

\* C3: no tool function lets an exception out: every call returns a value.
C3_NoToolRaises == result.status # "raised"

\* two characters that are the same letter in either case, or equal
SameLetter(c, d) == c = d \/ \E k \in 1..26 : {c, d} = {UpperAlpha[k], LowerAlpha[k]}
EqualUpToCase(s, t) == Len(s) = Len(t) /\ \A i \in 1..Len(s) : SameLetter(s[i], t[i])

LookupTools == {"basic.get_city_weather", "get_city_info", "server.get_city_weather"}
\* the gazetteer of each lookup tool
Gazetteer(name) ==
    CASE name = "basic.get_city_weather" -> {US_CITIES[i][1] : i \in 1..Len(US_CITIES)}
      [] name = "get_city_info" -> {city_info[i][1] : i \in 1..Len(city_info)}
      [] name = "server.get_city_weather" -> {cities[i][1] : i \in 1..Len(cities)}
InGazetteerUpToCase(name, city_name) == \E e \in Gazetteer(name) : EqualUpToCase(city_name, e)

IsNotFound(r) ==
    ReturnsText(r, "City '{city_name}' not found. Available cities: {available}")

\* C4: a name that equals a gazetteer entry up to letter case takes the
\* found branch of each lookup tool, not the not-found result.
C4_LookupIgnoresCase ==
    (tool \in LookupTools /\ InGazetteerUpToCase(tool, args[1])) => ~IsNotFound(result)

\* the items of a ", "-separated text: where each starts, and what each is
ItemStarts(s) == {1} \cup {i + 2 : i \in {j \in 1..(Len(s) - 1) : s[j] = "," /\ s[j + 1] = " "}}
ItemAt(s, b) ==
    LET ends == {i \in b..Len(s) : i = Len(s) \/ (i + 3) \in ItemStarts(s)}
    IN  SubSeq(s, b, CHOOSE i \in ends : \A k \in ends : i <= k)
Items(s) == {ItemAt(s, b) : b \in ItemStarts(s)}

\* C5: for a name in no entry of the tool's gazetteer (up to letter case),
\* the lookup tool makes no network query and returns the not-found text,
\* which names the requested city and lists every gazetteer entry, each
\* once and nothing else.
C5_UnknownCityListsGazetteer ==
    (tool \in LookupTools /\ ~InGazetteerUpToCase(tool, args[1])) =>
        /\ IsNotFound(result)
        /\ fetched = <<>>
        /\ result.vals[1] = args[1]
        /\ Items(result.vals[2]) = Gazetteer(tool)
        /\ Cardinality(ItemStarts(result.vals[2])) = Cardinality(Gazetteer(tool))

C5_Witness ==
    /\ tool = "server.get_city_weather" /\ args[1] = Nowhereville
    /\ IsNotFound(result) /\ fetched = <<>>

\* the alert query came back with a JSON object that carries no alert: its
\* feature list is empty, or it has no feature list
ZeroFeatures(reply) ==
    /\ reply.kind = "ok"
    /\ reply.body.t = "obj"
    /\ \/ "features" \notin DOMAIN reply.body.v
       \/ reply.body.v.features.t = "list" /\ reply.body.v.features.v = <<>>

\* C11: when the alert query succeeds and its answer has an empty feature
\* list or no feature list, get_weather_alerts returns the text
\* "No active weather alerts for <location_name>", not an "Error ..." text
\* and not an exception.
C11_NoAlertsIsSuccess ==
    (tool = "get_weather_alerts" /\ ZeroFeatures(fetched[1].reply)) =>
        /\ result = NoAlerts(args[3])
        /\ result.status = "returned"
        /\ result.text # "Error getting weather alerts: {e}"

C11_Witness ==
    /\ tool = "get_weather_alerts"
    /\ fetched[1].reply = Ok(JObj([type |-> JStr(<<"FeatureCollection">>)]))
    /\ result = NoAlerts(Location)

ArithmeticTemplates ==
    {"{a} + {b} = {result}", "{a} - {b} = {result}", "{a} × {b} = {result}", "{a} ÷ {b} = {result}"}

\* C12: calculate called with a = 25, b = 17, operation = "add" returns the
\* text "25 + 17 = 42.0".
C12_TwentyFivePlusSeventeen ==
    (tool = "calculate" /\ args = <<Float(25), Float(17), op_add>>) =>
        /\ result.text \in ArithmeticTemplates
        /\ fstring(result) = <<"2","5"," ","+"," ","1","7"," ","=", " ","4","2",".","0">>

\* what that call returns: both operands are floats by then and are shown
\* as floats
CalculateShowsFloats ==
    (tool = "calculate" /\ args = <<Float(25), Float(17), op_add>>) =>
        fstring(result) = <<"2","5",".","0"," ","+"," ","1","7",".","0"," ","=", " ","4","2",".","0">>

\* the stretches of s between its commas, as (start, end) index pairs
Stops(s) == {0, Len(s) + 1} \cup {i \in 1..Len(s) : s[i] = ","}
Pieces(s) == {<<a, b>> \in Stops(s) \X Stops(s) : a < b /\ \A c \in Stops(s) : ~(a < c /\ c < b)}
\* c is a decimal numeral: an optional sign, then digits with at most one
\* point among them and at least one digit
IsNumeral(c) ==
    LET b == IF c # <<>> /\ c[1] \in {"+", "-"} THEN Tail(c) ELSE c
    IN  /\ \A i \in 1..Len(b) : IsDigit(b[i]) \/ b[i] = "."
        /\ Cardinality({i \in 1..Len(b) : b[i] = "."}) <= 1
        /\ \E i \in 1..Len(b) : IsDigit(b[i])
\* t is a numeral with blanks around it
IsNumber(t) ==
    \E i \in 1..Len(t), j \in 1..Len(t) :
        /\ i <= j
        /\ \A k \in 1..Len(t) : (k < i \/ k > j) => t[k] \in Whitespace
        /\ IsNumeral(SubSeq(t, i, j))
\* s is a comma-separated list of numbers
IsNumberList(s) == \A ab \in Pieces(s) : IsNumber(SubSeq(s, ab[1] + 1, ab[2] - 1))

\* m is the arithmetic mean of the rationals l[1], ..., l[Len(l)]
IsMeanOf(m, l) == m.d > 0 /\ Len(l) > 0 /\ m.n * Len(l) * sum(l).d = sum(l).n * m.d

AverageFailures == {"Error: Invalid number format. Use comma-separated numbers like '1,2,3,4'",
                    "Error: No numbers provided"}

\* C13: calculate_average never raises; for a text that is not a
\* comma-separated list of numbers (the empty text and a list with an empty
\* element among them) it returns an "Error: ..." text, and for a list of
\* numbers it returns a float, which is the arithmetic mean of the numbers.
C13_AverageOrFailure ==
    tool = "calculate_average" =>
        /\ result.status = "returned"
        /\ IsNumberList(args[1]) => ReturnsFloat(result)
        /\ ~IsNumberList(args[1]) => result.kind = "str" /\ result.text \in AverageFailures
        /\ \A c \in AverageCases :
               args[1] = c.text => ReturnsFloat(result) /\ IsMeanOf(result.vals[1], c.numbers)

C13_Witness ==
    /\ tool = "calculate_average" /\ args[1] = <<"1",",",",","2">>
    /\ result.kind = "str" /\ result.text \in AverageFailures

\* the mean of a list that parses
AverageOfOneTwoThree ==
    (tool = "calculate_average" /\ args[1] = <<"1",",","2",",","3">>) => result = Value(Float(2))

IsPrefix(p, l, most) == Len(p) = Min(most, Len(l)) /\ p = SubSeq(l, 1, Len(p))

ForecastText == "Weather Forecast for {location_name}\nWeather Office: {office}, Grid: ({grid_x}, {grid_y})\n\n{rows}"
BasicForecastText == "{city_name} Weather Forecast:\\n{forecasts}"
AlertsText == "Active Weather Alerts for {location_name}\n{'=' * 50}\n\n{alerts}"

\* the periods that the forecast query returned
UpstreamPeriods == fetched[2].reply.body.v.properties.v.periods.v
\* the alerts that the alert query returned
UpstreamAlerts == fetched[1].reply.body.v.features.v

\* row i of a forecast shows period i of the upstream list
ShowsPeriod(shown, period) ==
    /\ shown.v[1] = period.v.name
    /\ shown.v[2] = period.v.temperature
    /\ shown.v[3] = period.v.temperatureUnit
    /\ shown.v[4] = period.v.shortForecast

\* block i of the alerts text shows alert i of the upstream list: its event,
\* at most 3 of its areas, the first of them, and at most 200 characters of
\* its description
ShowsAlert(shown, alert) ==
    LET props == alert.v.properties.v
    IN  /\ "event" \in DOMAIN props => shown.v.event = props.event
        /\ Cardinality(ItemStarts(shown.v.areas.v)) <= 3
        /\ "areaDesc" \in DOMAIN props =>
               IsPrefix(SelectSeq(shown.v.areas.v, IsUpper), SelectSeq(props.areaDesc.v, IsUpper), 3)
        /\ "description" \in DOMAIN shown.v =>
               IsPrefix(shown.v.description.v, props.description.v, 200)

\* C14: a forecast of the basic agent shows the first 3 upstream periods or
\* all of them if fewer; a forecast of the server shows the first 5 or all
\* if fewer, each detail text cut to its first 150 characters; the alerts
\* text shows the first 5 upstream alerts or all if fewer, each description
\* cut to its first 200 characters and each area list to its first 3
\* areas; rows are in upstream order.
C14_OutputIsBounded ==
    /\ (tool = "basic.get_city_weather" /\ result.kind = "str" /\ result.text = BasicForecastText) =>
           /\ Len(result.vals[2].v) = Min(3, Len(UpstreamPeriods))
           /\ \A i \in 1..Len(result.vals[2].v) : ShowsPeriod(result.vals[2].v[i], UpstreamPeriods[i])
    /\ (tool \in {"get_weather_forecast", "server.get_city_weather"}
          /\ result.kind = "str" /\ result.text = ForecastText) =>
           /\ Len(result.vals[5].v) = Min(5, Len(UpstreamPeriods))
           /\ \A i \in 1..Len(result.vals[5].v) :
                  /\ ShowsPeriod(result.vals[5].v[i], UpstreamPeriods[i])
                  /\ IsPrefix(result.vals[5].v[i].v[5].v, UpstreamPeriods[i].v.detailedForecast.v, 150)
    /\ (tool = "get_weather_alerts" /\ result.kind = "str" /\ result.text = AlertsText) =>
           /\ Len(result.vals[2].v) = Min(5, Len(UpstreamAlerts))
           /\ \A i \in 1..Len(result.vals[2].v) : ShowsAlert(result.vals[2].v[i], UpstreamAlerts[i])

C14_Witness ==
    /\ tool = "get_weather_alerts" /\ result.kind = "str" /\ result.text = AlertsText
    /\ Len(UpstreamAlerts) = 7 /\ Len(result.vals[2].v) = 5
    /\ Len(UpstreamAlerts[1].v.properties.v.description.v) = 230
    /\ Len(result.vals[2].v[1].v.description.v) = 200
    /\ SelectSeq(result.vals[2].v[1].v.areas.v, IsUpper) = <<"A", "B", "C">>

ConditionsText == "Current Conditions for {location_name}\n{lines}"
\* each measurement of an observation with the line that shows it
MeasurementLines == {<<"temperature", "temperature">>, <<"windSpeed", "wind_speed">>,
                     <<"windDirection", "wind_direction">>, <<"relativeHumidity", "humidity">>}
\* the properties of the latest observation, as fetched
LatestObservation == fetched[3].reply.body.v.properties.v
\* the observation carries a number, zero included, for the measurement
HasNumber(props, key) ==
    /\ key \in DOMAIN props
    /\ props[key].t = "obj"
    /\ "value" \in DOMAIN props[key].v
    /\ props[key].v.value.t = "num"
\* the measurement itself is null
IsNullMeasurement(props, key) == key \in DOMAIN props /\ props[key].t = "null"

\* get_current_conditions has fetched an observation of the first station
Observed ==
    /\ tool = "get_current_conditions" /\ Len(fetched) = 3
    /\ fetched[2].reply.kind = "ok" /\ fetched[2].reply.body = StationsFull
    /\ fetched[3].reply.kind = "ok" /\ fetched[3].reply.body \in MeasuredBodies

\* C17: when get_current_conditions has fetched the latest observation, it
\* returns the report, and the report has the Temperature, Wind Speed, Wind
\* Direction or Humidity line exactly when the observation carries a number
\* for that measurement, 0 included; a measurement that is missing or null
\* only leaves its line out.
C17_LineForEveryNumber ==
    Observed =>
        /\ ReturnsText(result, ConditionsText)
        /\ \A m \in MeasurementLines :
               (m[2] \in DOMAIN result.vals[2].v) <=> HasNumber(LatestObservation, m[1])

\* what the tool does: a line is shown for a number other than 0, and a
\* measurement that is itself null makes the whole call an error text
ConditionsShowNonZeroNumbers ==
    Observed =>
        IF \E m \in MeasurementLines : IsNullMeasurement(LatestObservation, m[1])
        THEN ReturnsText(result, "Error getting current conditions: {e}")
        ELSE /\ ReturnsText(result, ConditionsText)
             /\ \A m \in MeasurementLines :
                    (m[2] \in DOMAIN result.vals[2].v) <=>
                        /\ HasNumber(LatestObservation, m[1])
                        /\ LatestObservation[m[1]].v.value.v # 0

---------------------------------------------------------------------------
(* The scripts: 1_basic_agent.py, 2_agent_with_mcp.py, 3_weather_agent_mcp.py *)

Scripts == {"basic", "mcp", "report"}
Interactive == {"basic", "mcp"}

\* mcp_config: the servers each script names
mcp_config(s) ==
    CASE s = "mcp" -> {"math", "weather"}
      [] s = "report" -> {"weather"}
      [] OTHER -> {}

\* the @mcp.tool() functions of each server
server_tools(server) ==
    CASE server = "math" ->
             {"add", "multiply", "subtract", "divide", "power", "calculate_average"}
      [] server = "weather" ->
             {"get_weather_forecast", "get_current_conditions", "get_weather_alerts",
              "get_city_weather"}

\* client.get_tools(): the tools of every connected server
get_tools(connected) == UNION {server_tools(s) : s \in connected}

\* tools = [get_city_weather, calculate, get_city_info]
basic_tools == {"get_city_weather", "calculate", "get_city_info"}

ReportPrompt == <<"Generate a comprehensive weather report for these major US cities: {cities_list}. ...">>
UserMessage(content) == [role |-> "user", content |-> content]
\* what the agent adds to its message state during an invocation
ToolCallMessage == [role |-> "assistant", content |-> <<"{tool_calls}">>]
ToolResultMessage == [role |-> "tool", content |-> <<"{tool result}">>]
AnswerMessage == [role |-> "assistant", content |-> <<"{answer}">>]

ainvoke_input_carrying(previous, user_input) == Append(previous, UserMessage(user_input))

\* the argument of agent.ainvoke in the loops: a new list of one message,
\* whatever the previous invocation left
ainvoke_input(previous, user_input) == <<UserMessage(user_input)>>

ConnectFailedText(s) ==
    IF s = "mcp" THEN "Failed to connect to MCP servers: {e}"
    ELSE "Error connecting to MCP server or generating report: {e}"

\* leaving the `async with` block closes every connection of the client
async_with_exit_keeps(c) == c

async_with_exit(c) == {}

connect_partial(s, up) ==
    [pc |-> IF s = "mcp" THEN "await_input" ELSE "thinking",
     conns |-> up, tools |-> get_tools(up), agent |-> TRUE, printed |-> "tools"]

\* `async with MultiServerMCPClient(mcp_config) as client:` with the servers
\* `up` reachable, and the block up to its first await; entering raises unless
\* every configured server is reached, and the outer `except Exception` reports it
connect(s, up) ==
    IF up = mcp_config(s)
    THEN [pc |-> IF s = "mcp" THEN "await_input" ELSE "thinking",
          conns |-> up, tools |-> get_tools(up), agent |-> TRUE, printed |-> "tools"]
    ELSE [pc |-> "returned", conns |-> {}, tools |-> {}, agent |-> FALSE,
          printed |-> ConnectFailedText(s)]

kw_quit == <<"q","u","i","t">>
kw_exit == <<"e","x","i","t">>
kw_bye == <<"b","y","e">>
kw_q == <<"q">>
kw_goodbye == <<"g","o","o","d","b","y","e">>
\* ['quit', 'exit', 'bye', 'q', 'goodbye']
ExitKeywords == {kw_quit, kw_exit, kw_bye, kw_q, kw_goodbye}

loop_dispatch_case_sensitive(user_input) ==
    IF user_input \in ExitKeywords THEN "break"
    ELSE IF user_input = <<>> THEN "continue"
    ELSE "invoke"

\* what the loop body does with the stripped line: leave, re-prompt, or go on
\* to invoke the agent
loop_dispatch(user_input) ==
    IF lower(user_input) \in ExitKeywords THEN "break"
    ELSE IF user_input = <<>> THEN "continue"
    ELSE "invoke"

\* except KeyboardInterrupt: print goodbye; break
except_KeyboardInterrupt == "break"

except_Exception_breaks == "break"

\* except Exception as e: print error; continue
except_Exception == "continue"

Sat(k, max) == IF k < max THEN k + 1 ELSE max

\* break leaves the loop, the client block if there is one, and the function;
\* continue goes back to input()
Flow(c) ==
    IF c = "break"
    THEN pc' = "returned" /\ conns' = IF script = "mcp" THEN async_with_exit(conns) ELSE conns
    ELSE pc' = "await_input" /\ conns' = conns

\* the lines typed at the prompt
InputLines == {
    kw_quit, upper(kw_quit), title(kw_exit), <<" ">> \o kw_bye \o <<" ", "\n">>, upper(kw_q),
    <<"G","o","o","d","B","y","e">>, kw_exit,
    <<>>, <<" ">>, <<" ", "\t">>,
    <<"h","i">>, <<"q","u","i","t"," ","n","o","w">>, <<" ","q","q">>, <<"b","y"," ","e">> }

\* create_llm() (the ChatBedrockConverse set-up in the report run), and for
\* the basic agent the rest of the set-up up to the loop
CreateLLM ==
    /\ pc = "start"
    /\ \E ok \in BOOLEAN :
          IF ~ok
          THEN /\ pc' = "returned" /\ event' = "no_llm"
               /\ printed' = IF script = "report" THEN "Failed to setup LLM: {e}"
                              ELSE "No LLM available"
               /\ UNCHANGED <<tools, agent>>
          ELSE IF script = "basic"
          THEN /\ pc' = "await_input" /\ printed' = "Agent ready with tools: {tools}"
               /\ event' = "agent_created" /\ tools' = basic_tools /\ agent' = TRUE
          ELSE /\ pc' = "connect" /\ printed' = "Using AWS Bedrock Claude"
               /\ event' = "llm_created" /\ UNCHANGED <<tools, agent>>
    /\ UNCHANGED <<script, line, messages, steps, conns, eof, errors>>
    /\ UNCHANGED toolVars

Connect ==
    /\ pc = "connect"
    /\ \E up \in SUBSET mcp_config(script) :
          LET o == connect(script, up)
          IN  /\ pc' = o.pc /\ conns' = o.conns /\ tools' = o.tools /\ agent' = o.agent
              /\ printed' = o.printed
              /\ event' = IF up = mcp_config(script) THEN "connected" ELSE "connect_failed"
              /\ messages' = IF o.pc = "thinking" THEN <<UserMessage(ReportPrompt)>> ELSE messages
    /\ UNCHANGED <<script, line, steps, eof, errors>>
    /\ UNCHANGED toolVars

\* input() returns a line
ReadLine ==
    /\ pc = "await_input" /\ ~eof
    /\ \E raw \in InputLines :
          LET user_input == strip(raw)
              d == loop_dispatch(user_input)
          IN  /\ line' = raw
              /\ event' = "line"
              /\ IF d = "invoke"
                 THEN /\ pc' = "thinking" /\ conns' = conns
                      /\ messages' = ainvoke_input(messages, user_input)
                      /\ steps' = 0
                      /\ printed' = "Agent: "
                 ELSE /\ Flow(d)
                      /\ printed' = IF d = "break" THEN "Goodbye!" ELSE printed
                      /\ UNCHANGED <<messages, steps>>
    /\ UNCHANGED <<script, tools, agent, eof, errors>>
    /\ UNCHANGED toolVars

\* input() raises EOFError: standard input is at its end
ReadEOF ==
    /\ pc = "await_input"
    /\ eof' = TRUE
    /\ event' = "input_fault"
    /\ Flow(except_Exception)
    /\ printed' = "Error: {e}"
    /\ errors' = Sat(errors, MaxErrors)
    /\ UNCHANGED <<script, line, messages, steps, tools, agent>>
    /\ UNCHANGED toolVars

\* Ctrl-C: KeyboardInterrupt raised in the try body
Interrupt ==
    /\ script \in Interactive
    /\ pc \in {"await_input", "thinking", "acting"}
    /\ event' = "interrupt"
    /\ Flow(except_KeyboardInterrupt)
    /\ printed' = "Goodbye!"
    /\ UNCHANGED <<script, line, messages, steps, tools, agent, eof, errors>>
    /\ UNCHANGED toolVars

\* an exception leaves agent.ainvoke: the loop reports it and continues; the
\* report run reports it and returns
TurnFault(ev) ==
    /\ event' = ev
    /\ IF script \in Interactive
       THEN Flow(except_Exception) /\ printed' = "Error: {e}"
       ELSE /\ pc' = "returned" /\ conns' = async_with_exit(conns)
            /\ printed' = ConnectFailedText(script)
    /\ errors' = Sat(errors, MaxErrors)
    /\ UNCHANGED <<script, line, messages, steps, tools, agent, eof>>
    /\ UNCHANGED toolVars

\* the LLM gives its final answer: agent.ainvoke returns and the script shows it
LLMFinal ==
    /\ pc = "thinking"
    /\ event' = "answered"
    /\ \E shown \in {"{last_message.content}", "No response generated"} :
          printed' = shown
    /\ IF script \in Interactive
       THEN pc' = "await_input" /\ conns' = conns
       ELSE pc' = "returned" /\ conns' = async_with_exit(conns)
    /\ messages' = Append(messages, AnswerMessage)
    /\ UNCHANGED <<script, line, steps, tools, agent, eof, errors>>
    /\ UNCHANGED toolVars

\* the LLM requests a tool call; the message state keeps the requests and
\* results of the first MaxSteps steps of an invocation
LLMToolCall ==
    /\ pc = "thinking"
    /\ pc' = "acting"
    /\ steps' = Sat(steps, MaxSteps)
    /\ event' = "tool_call"
    /\ messages' = IF steps < MaxSteps THEN Append(messages, ToolCallMessage) ELSE messages
    /\ UNCHANGED <<script, line, conns, tools, agent, printed, eof, errors>>
    /\ UNCHANGED toolVars

\* the LLM service fails
LLMFault == pc = "thinking" /\ TurnFault("agent_fault")

\* the tool call comes back with a result (or with the framework's message
\* for its failure), which goes back to the LLM
ToolReturns ==
    /\ pc = "acting"
    /\ pc' = "thinking"
    /\ event' = "tool_result"
    /\ messages' = IF messages[Len(messages)] = ToolCallMessage
                   THEN Append(messages, ToolResultMessage) ELSE messages
    /\ UNCHANGED <<script, line, steps, conns, tools, agent, printed, eof, errors>>
    /\ UNCHANGED toolVars

\* the tool raises and the exception leaves agent.ainvoke
ToolFault == pc = "acting" /\ TurnFault("tool_fault")

LoopInit ==
    /\ tool = "none"
    /\ args = <<>>
    /\ result = NoResult
    /\ fetched = <<>>
    /\ script \in Scripts
    /\ pc = "start"
    /\ line = <<>>
    /\ messages = <<>>
    /\ steps = 0
    /\ conns = {}
    /\ tools = {}
    /\ agent = FALSE
    /\ printed = "banner"
    /\ event = "start"
    /\ eof = FALSE
    /\ errors = 0

AgentStep == LLMFinal \/ LLMToolCall \/ LLMFault \/ ToolReturns \/ ToolFault

Next ==
    \/ CreateLLM
    \/ Connect
    \/ ReadLine
    \/ ReadEOF
    \/ Interrupt
    \/ LLMFinal
    \/ LLMToolCall
    \/ LLMFault
    \/ ToolReturns
    \/ ToolFault

\* the scripts
Spec == LoopInit /\ [][Next]_vars

\* the scripts, with an agent whose LLM and tools always come to an outcome
FairSpec == Spec /\ WF_vars(AgentStep)

---------------------------------------------------------------------------
(* Properties of the scripts *)

InLoop == script \in Interactive /\ pc \in {"await_input", "thinking", "acting"}
InTurn == pc \in {"thinking", "acting"}
Faults == {"input_fault", "agent_fault", "tool_fault"}

\* C6: in the interactive loop a fault of a turn (reading input, calling the
\* agent, running a tool) is reported and the loop awaits input again, where
\* a line can still be read and processed unless the input has ended; the
\* loop is left only by an exit keyword or an interrupt.
C6_FaultKeepsSessionAlive ==
    [][/\ (InLoop /\ event' \in Faults) =>
              /\ pc' = "await_input"
              /\ printed' = "Error: {e}"
              /\ (~eof' => (ENABLED ReadLine)')
       /\ (InLoop /\ pc' = "returned") =>
              \/ event' = "interrupt"
              \/ event' = "line" /\ \E kw \in ExitKeywords : EqualUpToCase(strip(line'), kw)
      ]_vars

C6_Witness ==
    /\ script = "mcp" /\ errors = MaxErrors /\ event = "line" /\ pc = "thinking"

IsBlank(s) == \A i \in 1..Len(s) : s[i] \in Whitespace
\* s is the keyword kw in some letter case, with white space around it
IsKeyword(s, kw) ==
    \E i \in 1..Len(s), j \in 1..Len(s) :
        /\ EqualUpToCase(SubSeq(s, i, j), kw)
        /\ \A k \in (1..(i - 1)) \cup ((j + 1)..Len(s)) : s[k] \in Whitespace
IsExit(s) ==
    \/ IsKeyword(s, <<"q","u","i","t">>)
    \/ IsKeyword(s, <<"e","x","i","t">>)
    \/ IsKeyword(s, <<"b","y","e">>)
    \/ IsKeyword(s, <<"q">>)
    \/ IsKeyword(s, <<"g","o","o","d","b","y","e">>)

\* C7: awaiting input, the agent is invoked only for a line that is neither
\* empty after trimming nor an exit keyword: a blank line re-prompts and an
\* exit keyword in any letter case ends the session, both without invoking
\* the agent.
C7_AgentInvokedOnlyForRealInput ==
    [][(pc = "await_input" /\ event' = "line") =>
           /\ IsExit(line') => (pc' = "returned" /\ printed' = "Goodbye!" /\ messages' = messages)
           /\ IsBlank(line') => (pc' = "await_input" /\ messages' = messages)
           /\ (~IsExit(line') /\ ~IsBlank(line')) => pc' = "thinking"
           /\ pc' = "thinking" => (~IsExit(line') /\ ~IsBlank(line') /\ Len(messages') = 1)
      ]_vars

C7_Witness ==
    /\ script = "basic" /\ event = "line" /\ line = <<"Q","U","I","T">>
    /\ pc = "returned" /\ messages = <<>>

\* C8: when the MCP client fails to connect at startup, the session aborts
\* with a diagnostic: no tool list, no agent, no interactive loop and no
\* report generation; an agent only ever has the tools of every configured
\* server.
C8_ConnectFailureAborts ==
    /\ event = "connect_failed" =>
           /\ pc = "returned"
           /\ tools = {} /\ ~agent /\ messages = <<>>
           /\ printed = ConnectFailedText(script)
    /\ (agent /\ script # "basic") =>
           tools = UNION {server_tools(s) : s \in mcp_config(script)}

C8_Witness ==
    script = "mcp" /\ event = "connect_failed" /\ pc = "returned" /\ ~agent

\* C9: an interrupt while awaiting input or during a turn ends the session
\* with the goodbye message, and however the MCP interactive loop is left,
\* the server connections opened at startup are closed when interactive_chat
\* has returned.
C9_InterruptEndsAndConnectionsClose ==
    /\ event = "interrupt" => (pc = "returned" /\ printed = "Goodbye!")
    /\ (script = "mcp" /\ pc = "returned") => conns = {}
    /\ (script = "mcp" /\ InLoop) => conns = mcp_config("mcp")

C9_Witness ==
    /\ script = "mcp" /\ event = "interrupt" /\ pc = "returned" /\ agent /\ conns = {}
    /\ messages # <<>>

\* C15: in the interactive loops every invocation of the agent is given
\* exactly one message, the user message with the current (trimmed) input,
\* whatever the earlier turns left in the message state: earlier user
\* texts, tool calls, tool results and answers are all dropped.
C15_TurnsAreIndependent ==
    [][(script \in Interactive /\ pc = "await_input" /\ pc' = "thinking") =>
           /\ Len(messages') = 1
           /\ messages' = <<UserMessage(strip(line'))>>
      ]_vars

\* an invocation after an earlier turn that ended in a fault
C15_Witness ==
    /\ script = "mcp" /\ pc = "thinking" /\ event = "line" /\ errors = 1 /\ ~eof
    /\ messages = <<UserMessage(<<"h","i">>)>>

\* C16 as stated: once standard input is at end-of-file the interactive
\* loop is never left and the agent is never invoked: every state from then
\* on awaits input.
C16_NeverLeavesAfterEOF == eof => pc = "await_input"

\* C16: once standard input is at end-of-file it stays there; every read
\* of input fails, the failure is reported by the per-turn handler and the
\* loop awaits input again, where only another failing read is possible:
\* no line is read and the agent is not invoked.  The loop never ends on its
\* own; an interrupt, and nothing else, ends it.
C16_EOFLoopsUntilInterrupted ==
    [][/\ eof => eof'
       /\ eof' => pc' \in {"await_input", "returned"}
       /\ (pc = "await_input" /\ eof') =>
              \/ /\ event' = "input_fault" /\ pc' = "await_input"
                 /\ printed' = "Error: {e}" /\ messages' = messages
                 /\ (ENABLED ReadEOF)' /\ ~(ENABLED ReadLine)'
              \/ event' = "interrupt" /\ pc' = "returned"
      ]_vars

C16_Witness ==
    /\ script = "basic" /\ eof /\ pc = "await_input" /\ event = "input_fault"
    /\ errors = MaxErrors /\ printed = "Error: {e}"

=============================================================================
